---------------------------- MODULE Spec2Model ----------------------------
(***************************************************************************)
(* A model of src/src/lib.rs: Money::from_str and Currency::from_str.      *)
(*                                                                         *)
(* Strings are sequences of Unicode code points (integers), so that        *)
(* split_whitespace, to_lowercase and the float grammar are computed       *)
(* character by character.  One call of Money::from_str is a run of the    *)
(* steps Split, MatchParts, ParseAmount, ParseCurrency, MoneyNew; a caller *)
(* makes a first call and then a second one on the same words (written     *)
(* with the same or other whitespace) or on the two words swapped.         *)
(***************************************************************************)
EXTENDS Integers, Sequences, FiniteSets

VARIABLES
    input,       \* s: the string handed to Money::from_str
    words,       \* the words the caller wrote into input (caller side)
    pc,          \* position in from_str: idle, split, match, amount, currency, new, done
    parts,       \* let parts: Vec<&str>
    amount,      \* the value of amount.parse()? once evaluated
    currency,    \* the value of currency.parse()? once evaluated
    result,      \* what from_str returned
    calls,       \* number of calls started by the caller
    prevInput,   \* input of the previous call
    prevWords,   \* words of the previous call
    prevResult   \* result of the previous call

vars == <<input, words, pc, parts, amount, currency, result, calls,
          prevInput, prevWords, prevResult>>

-----------------------------------------------------------------------------
(* Bounds *)

\* The largest number of words the caller writes into one input.
MaxTokens == 3

-----------------------------------------------------------------------------
(* Characters *)

\* char::is_whitespace: the Unicode White_Space code points.
IsWhitespace(c) ==
    \/ c \in 9..13
    \/ c = 32
    \/ c = 133
    \/ c = 160
    \/ c = 5760
    \/ c \in 8192..8202
    \/ c \in {8232, 8233, 8239, 8287, 12288}

IsDigit(c) == c \in 48..57

\* char lowercasing over Basic Latin and Latin-1: A-Z and the letters
\* U+00C0..U+00DE (U+00D7, the multiplication sign, is no letter).
LowerChar(c) ==
    IF c \in 65..90 THEN c + 32
    ELSE IF c \in 192..222 /\ c # 215 THEN c + 32
    ELSE c

\* str::to_lowercase
ToLowercase(s) == [i \in 1..Len(s) |-> LowerChar(s[i])]


-----------------------------------------------------------------------------
(* s.split_whitespace().collect() *)

\* The scan of s from position i: cur is the word being read, acc the words
\* already closed.  Empty fragments are never emitted.
RECURSIVE SplitFrom(_, _, _, _)
SplitFrom(s, i, cur, acc) ==
    IF i > Len(s)
    THEN IF cur = <<>> THEN acc ELSE Append(acc, cur)
    ELSE IF IsWhitespace(s[i])
         THEN SplitFrom(s, i + 1, <<>>, IF cur = <<>> THEN acc ELSE Append(acc, cur))
         ELSE SplitFrom(s, i + 1, Append(cur, s[i]), acc)

\* A plausible slip: s.split(' '), which cuts at every single space, keeps
\* the empty fragments and knows no other whitespace.
RECURSIVE SplitOnSpaceFrom(_, _, _, _)
SplitOnSpaceFrom(s, i, cur, acc) ==
    IF i > Len(s)
    THEN Append(acc, cur)
    ELSE IF s[i] = 32
         THEN SplitOnSpaceFrom(s, i + 1, <<>>, Append(acc, cur))
         ELSE SplitOnSpaceFrom(s, i + 1, Append(cur, s[i]), acc)

SplitOnSpace(s) == SplitOnSpaceFrom(s, 1, <<>>, <<>>)

SplitWhitespace(s) == SplitFrom(s, 1, <<>>, <<>>)

-----------------------------------------------------------------------------
(* amount.parse::<f32>()                                                   *)
(*                                                                         *)
(*   Float  ::= Sign? ( 'inf' | 'infinity' | 'nan' | Number )              *)
(*   Number ::= ( Digit+ | Digit+ '.' Digit* | Digit* '.' Digit+ ) Exp?    *)
(*   Exp    ::= 'e' Sign? Digit+                                           *)
(*                                                                         *)
(* letters in any case.  A finite value is kept as the decimal the literal *)
(* denotes, (-1)^neg * mant * 10^exp with mant free of trailing zeros;     *)
(* rounding to binary32 is a function of that decimal.                     *)

\* The number of digits of s from position i on.
RECURSIVE DigitRun(_, _)
DigitRun(s, i) ==
    IF i <= Len(s) /\ IsDigit(s[i]) THEN 1 + DigitRun(s, i + 1) ELSE 0

\* The natural number a digit string denotes (0 for the empty string).
RECURSIVE DigitsValue(_)
DigitsValue(d) ==
    IF d = <<>> THEN 0
    ELSE 10 * DigitsValue(SubSeq(d, 1, Len(d) - 1)) + (d[Len(d)] - 48)

\* mant * 10^exp with the trailing zeros of mant moved into exp.
RECURSIVE Normalize(_, _)
Normalize(mant, exp) ==
    IF mant = 0 THEN [mant |-> 0, exp |-> 0]
    ELSE IF mant % 10 = 0 THEN Normalize(mant \div 10, exp + 1)
    ELSE [mant |-> mant, exp |-> exp]

FloatOk(class, neg, mant, exp) ==
    [ok |-> TRUE, value |-> [class |-> class, neg |-> neg, mant |-> mant, exp |-> exp]]

\* ParseFloatError { kind: Empty | Invalid }
FloatErr(kind) == [ok |-> FALSE, error |-> kind]

\* Number, on the literal without its sign.
ParseNumber(s, neg) ==
    LET n1     == DigitRun(s, 1)
        hasDot == n1 + 1 <= Len(s) /\ s[n1 + 1] = 46
        n2     == IF hasDot THEN DigitRun(s, n1 + 2) ELSE 0
        p      == n1 + (IF hasDot THEN 1 + n2 ELSE 0) + 1
        hasExp == p <= Len(s) /\ LowerChar(s[p]) = 101
        expSgn == hasExp /\ p + 1 <= Len(s) /\ s[p + 1] \in {43, 45}
        expNeg == expSgn /\ s[p + 1] = 45
        q      == IF expSgn THEN p + 2 ELSE p + 1
        n3     == IF hasExp THEN DigitRun(s, q) ELSE 0
        last   == IF hasExp THEN q + n3 ELSE p
        valid  == n1 + n2 > 0 /\ (hasExp => n3 > 0) /\ last = Len(s) + 1
        digits == SubSeq(s, 1, n1) \o SubSeq(s, n1 + 2, n1 + 1 + n2)
        e      == DigitsValue(SubSeq(s, q, q + n3 - 1))
        norm   == Normalize(DigitsValue(digits), (IF expNeg THEN 0 - e ELSE e) - n2)
    IN  IF valid THEN FloatOk("finite", neg, norm.mant, norm.exp)
        ELSE FloatErr("Invalid")

\* <f32 as FromStr>::from_str
ParseFloat(s) ==
    IF s = <<>> THEN FloatErr("Empty")
    ELSE LET signed == s[1] \in {43, 45}
             neg    == s[1] = 45
             rest   == IF signed THEN Tail(s) ELSE s
             low    == ToLowercase(rest)
         IN  IF rest = <<>> THEN FloatErr("Invalid")
             ELSE IF low = <<105, 110, 102>>                          \* inf
                     \/ low = <<105, 110, 102, 105, 110, 105, 116, 121>>  \* infinity
                  THEN FloatOk("inf", neg, 0, 0)
             ELSE IF low = <<110, 97, 110>>                           \* nan
                  THEN FloatOk("nan", neg, 0, 0)
             ELSE ParseNumber(rest, neg)

-----------------------------------------------------------------------------
(* Currency::from_str *)

\* The literals of the match arms, as the source file spells them.
DollarLiterals == { <<100, 111, 108, 108, 97, 114>>,   \* "dollar"
                    <<36>> }                           \* "$"

\* The third literal is the euro sign; the source file holds it as the three
\* characters U+00E2 U+201A U+00AC.
EuroLiterals == { <<101, 117, 114, 111>>,              \* "euro"
                  <<101, 117, 114>>,                   \* "eur"
                  <<226, 8218, 172>> }                 \* the euro sign

CurrencyOk(c) == [ok |-> TRUE, value |-> c]
CurrencyErr == [ok |-> FALSE, kind |-> "ParseCurrency", msg |-> "Unknown currency"]

\* A plausible slip: the match without to_lowercase().
CurrencyFromStrCaseSensitive(s) ==
    IF s \in DollarLiterals THEN CurrencyOk("Dollar")
    ELSE IF s \in EuroLiterals THEN CurrencyOk("Euro")
    ELSE CurrencyErr

\* A plausible slip: the unknown token defaults to a currency.
CurrencyFromStrDefault(s) ==
    IF ToLowercase(s) \in EuroLiterals THEN CurrencyOk("Euro")
    ELSE CurrencyOk("Dollar")

CurrencyFromStr(s) ==
    LET l == ToLowercase(s)
    IN  IF l \in DollarLiterals THEN CurrencyOk("Dollar")
        ELSE IF l \in EuroLiterals THEN CurrencyOk("Euro")
        ELSE CurrencyErr

-----------------------------------------------------------------------------
(* Values *)

\* Money { amount, currency } (Money::new)
Money(a, c) == [amount |-> a, currency |-> c]

\* Result<Money, MoneyError>
Ok(m) == [kind |-> "Ok", money |-> m]

\* impl From<ParseFloatError> for MoneyError
FromParseFloatError(e) == [kind |-> "ParseAmount", error |-> e]

\* MoneyError::ParseFormatting("Expecting amount and currency".into())
ErrFormatting == [kind |-> "ParseFormatting", msg |-> "Expecting amount and currency"]

\* The three variants of MoneyError.
ErrorKinds == {"ParseAmount", "ParseCurrency", "ParseFormatting"}

\* No value yet (a call that has not returned, a field not yet evaluated).
NoResult == [kind |-> "None"]
NoAmount == [class |-> "unset", neg |-> FALSE, mant |-> 0, exp |-> 0]
NoCurrency == "unset"

\* A plausible slip: a bitwise comparison of the two floats.
F32EqBitwise(a, b) == a = b

\* f32's PartialEq: NaN equals nothing, and the two zeros are equal.
F32Eq(a, b) ==
    /\ a.class # "nan"
    /\ b.class # "nan"
    /\ \/ a = b
       \/ a.class = "finite" /\ b.class = "finite" /\ a.mant = 0 /\ b.mant = 0

\* #[derive(PartialEq)] on Money
MoneyEq(m1, m2) == F32Eq(m1.amount, m2.amount) /\ m1.currency = m2.currency

-----------------------------------------------------------------------------
(* The caller's inputs *)

\* The words a caller writes.
Vocabulary ==
    { <<49, 48, 48>>,                                  \* 100
      <<52, 50, 46, 52>>,                              \* 42.4
      <<45, 53>>,                                      \* -5
      <<78, 97, 78>>,                                  \* NaN
      <<79, 110, 101, 77, 105, 108, 108, 105, 111, 110>>,  \* OneMillion
      <<69, 117, 114, 111>>,                           \* Euro
      <<36>>,                                          \* $
      <<68, 79, 76, 76, 65, 82>>,                      \* DOLLAR
      <<226, 8218, 172>>,                              \* the euro sign, as in the source
      <<117, 115, 100>>,                               \* usd
      <<50, 46, 53, 69, 45, 49>> }                     \* 2.5E-1

\* How a caller spaces the words: the whitespace before the first word,
\* between two words, and after the last.
Styles ==
    { [lead |-> <<>>,      sep |-> <<32>>,         trail |-> <<>>],
      [lead |-> <<32, 32>>, sep |-> <<32, 32, 32>>, trail |-> <<32>>],
      [lead |-> <<9>>,     sep |-> <<160, 10>>,    trail |-> <<13, 10>>] }

RECURSIVE Join(_, _)
Join(ws, sep) ==
    IF ws = <<>> THEN <<>>
    ELSE IF Len(ws) = 1 THEN ws[1]
    ELSE ws[1] \o sep \o Join(Tail(ws), sep)

Render(ws, st) == st.lead \o Join(ws, st.sep) \o st.trail

WordSeqs == UNION { [1..n -> Vocabulary] : n \in 0..MaxTokens }

Reverse(ws) == [i \in 1..Len(ws) |-> ws[Len(ws) + 1 - i]]

-----------------------------------------------------------------------------
(* Money::from_str, step by step *)

\* A plausible slip: the currency argument evaluated before the amount.
FieldOrderCurrencyFirst == <<"currency", "amount">>

\* Money::new(amount.parse()?, currency.parse()?): arguments are evaluated
\* left to right, and each ? returns at once on an error.
FieldOrder == <<"amount", "currency">>

AfterField(f) == IF f = FieldOrder[1] THEN FieldOrder[2] ELSE "new"

Init ==
    /\ input = <<>>
    /\ words = <<>>
    /\ pc = "idle"
    /\ parts = <<>>
    /\ amount = NoAmount
    /\ currency = NoCurrency
    /\ result = NoResult
    /\ calls = 0
    /\ prevInput = <<>>
    /\ prevWords = <<>>
    /\ prevResult = NoResult

\* The caller's first call: "<words>".parse::<Money>()
Call ==
    /\ pc = "idle"
    /\ \E ws \in WordSeqs, st \in Styles :
         /\ words' = ws
         /\ input' = Render(ws, st)
    /\ pc' = "split"
    /\ calls' = 1
    /\ UNCHANGED <<parts, amount, currency, result, prevInput, prevWords, prevResult>>

\* A second call, on the same words in any spacing.
CallAgain ==
    /\ pc = "done"
    /\ calls = 1
    /\ \E st \in Styles : input' = Render(words, st)
    /\ prevInput' = input
    /\ prevWords' = words
    /\ prevResult' = result
    /\ pc' = "split"
    /\ calls' = 2
    /\ parts' = <<>>
    /\ amount' = NoAmount
    /\ currency' = NoCurrency
    /\ result' = NoResult
    /\ UNCHANGED words

\* A second call, on the two words of the first in the other order.
CallSwapped ==
    /\ pc = "done"
    /\ calls = 1
    /\ Len(words) = 2
    /\ words' = Reverse(words)
    /\ \E st \in Styles : input' = Render(Reverse(words), st)
    /\ prevInput' = input
    /\ prevWords' = words
    /\ prevResult' = result
    /\ pc' = "split"
    /\ calls' = 2
    /\ parts' = <<>>
    /\ amount' = NoAmount
    /\ currency' = NoCurrency
    /\ result' = NoResult

\* let parts: Vec<&str> = s.split_whitespace().collect();
Split ==
    /\ pc = "split"
    /\ parts' = SplitWhitespace(input)
    /\ pc' = "match"
    /\ UNCHANGED <<input, words, amount, currency, result, calls,
                   prevInput, prevWords, prevResult>>

\* A plausible slip: the slice pattern [amount, currency, ..], or indexing
\* parts[0] and parts[1] behind a check that only asks for a first token.
MatchPartsNoLengthCheck ==
    /\ pc = "match"
    /\ IF Len(parts) >= 1
       THEN pc' = FieldOrder[1] /\ UNCHANGED result
       ELSE pc' = "done" /\ result' = ErrFormatting
    /\ UNCHANGED <<input, words, parts, amount, currency, calls,
                   prevInput, prevWords, prevResult>>

\* A plausible slip: the slice pattern [amount, currency, ..], which lets
\* extra tokens through.
MatchPartsAtLeastTwo ==
    /\ pc = "match"
    /\ IF Len(parts) >= 2
       THEN pc' = FieldOrder[1] /\ UNCHANGED result
       ELSE pc' = "done" /\ result' = ErrFormatting
    /\ UNCHANGED <<input, words, parts, amount, currency, calls,
                   prevInput, prevWords, prevResult>>

\* match parts[..] { [amount, currency] => ..., _ => Err(ParseFormatting) }
MatchParts ==
    /\ pc = "match"
    /\ IF Len(parts) = 2
       THEN pc' = FieldOrder[1] /\ UNCHANGED result
       ELSE pc' = "done" /\ result' = ErrFormatting
    /\ UNCHANGED <<input, words, parts, amount, currency, calls,
                   prevInput, prevWords, prevResult>>

\* A plausible slip: the amount read from the second token.
ParseAmountFromSecond ==
    /\ pc = "amount"
    /\ LET r == ParseFloat(parts[2])
       IN  IF r.ok
           THEN amount' = r.value /\ pc' = AfterField("amount") /\ UNCHANGED result
           ELSE result' = FromParseFloatError(r.error) /\ pc' = "done" /\ UNCHANGED amount
    /\ UNCHANGED <<input, words, parts, currency, calls,
                   prevInput, prevWords, prevResult>>

\* A plausible slip: amount.parse().unwrap_or(0.0), a default in place of
\* the error.
ParseAmountDefaultZero ==
    /\ pc = "amount"
    /\ LET r == ParseFloat(parts[1])
       IN  amount' = IF r.ok THEN r.value
                     ELSE [class |-> "finite", neg |-> FALSE, mant |-> 0, exp |-> 0]
    /\ pc' = AfterField("amount")
    /\ UNCHANGED <<input, words, parts, currency, result, calls,
                   prevInput, prevWords, prevResult>>

\* A plausible slip: the amount looked for in either token.
ParseAmountEitherToken ==
    /\ pc = "amount"
    /\ LET r1 == ParseFloat(parts[1])
           r  == IF r1.ok THEN r1 ELSE ParseFloat(parts[2])
       IN  IF r.ok
           THEN amount' = r.value /\ pc' = AfterField("amount") /\ UNCHANGED result
           ELSE result' = FromParseFloatError(r.error) /\ pc' = "done" /\ UNCHANGED amount
    /\ UNCHANGED <<input, words, parts, currency, calls,
                   prevInput, prevWords, prevResult>>

\* amount.parse()?
ParseAmount ==
    /\ pc = "amount"
    /\ LET r == ParseFloat(parts[1])
       IN  IF r.ok
           THEN amount' = r.value /\ pc' = AfterField("amount") /\ UNCHANGED result
           ELSE result' = FromParseFloatError(r.error) /\ pc' = "done" /\ UNCHANGED amount
    /\ UNCHANGED <<input, words, parts, currency, calls,
                   prevInput, prevWords, prevResult>>

\* currency.parse()?
ParseCurrency ==
    /\ pc = "currency"
    /\ LET r == CurrencyFromStr(parts[2])
       IN  IF r.ok
           THEN currency' = r.value /\ pc' = AfterField("currency") /\ UNCHANGED result
           ELSE result' = [kind |-> r.kind, msg |-> r.msg] /\ pc' = "done"
                /\ UNCHANGED currency
    /\ UNCHANGED <<input, words, parts, amount, calls,
                   prevInput, prevWords, prevResult>>

\* Ok(Money::new(amount, currency))
MoneyNew ==
    /\ pc = "new"
    /\ result' = Ok(Money(amount, currency))
    /\ pc' = "done"
    /\ UNCHANGED <<input, words, parts, amount, currency, calls,
                   prevInput, prevWords, prevResult>>

Next ==
    \/ Call
    \/ CallAgain
    \/ CallSwapped
    \/ Split
    \/ MatchParts
    \/ ParseAmount
    \/ ParseCurrency
    \/ MoneyNew

Spec == Init /\ [][Next]_vars

-----------------------------------------------------------------------------
(* Properties *)

\* The call has returned.
Done == pc = "done"

\* The second call has returned.
SecondDone == pc = "done" /\ calls = 2

\* The four currency tokens the specification lists.
ListedTokens == { <<100, 111, 108, 108, 97, 114>>,   \* dollar
                  <<36>>,                            \* $
                  <<101, 117, 114, 111>>,            \* euro
                  <<101, 117, 114>> }                \* eur

\* The euro sign, as the source file spells it.
EuroSign == <<226, 8218, 172>>

UnknownCurrency == [kind |-> "ParseCurrency", msg |-> "Unknown currency"]

\* The opposite case of a character, for the letters LowerChar knows.
UpperChar(c) ==
    IF c \in 97..122 THEN c - 32
    ELSE IF c \in 224..254 /\ c # 247 THEN c - 32
    ELSE c

\* Every spelling of t that differs from it in letter case only.
RECURSIVE CaseVariants(_)
CaseVariants(t) ==
    IF t = <<>> THEN {<<>>}
    ELSE { <<c>> \o v : c \in {LowerChar(t[1]), UpperChar(t[1])},
                        v \in CaseVariants(Tail(t)) }

\* C1: an input that does not consist of exactly two words is answered with
\* Err(ParseFormatting("Expecting amount and currency")), whatever its words.
C1_NotTwoTokens ==
    (Done /\ Len(words) # 2) => result = ErrFormatting

\* C1 witness: three words, the first a valid amount and the second a valid
\* currency, rejected as a formatting error.
C1_Witness ==
    /\ Done
    /\ Len(words) = 3
    /\ ParseFloat(words[1]).ok
    /\ CurrencyFromStr(words[2]).ok
    /\ result = ErrFormatting

\* C2: the call returns Ok exactly when the input has two words, the first
\* accepted by the float parser and the second by the currency lookup; the
\* Money then holds the float's value and the lookup's currency; every other
\* outcome is one of the three errors.
C2_OkExactly ==
    Done =>
        LET two == Len(words) = 2
        IN  /\ result.kind = "Ok"
                <=> (two /\ ParseFloat(words[1]).ok /\ CurrencyFromStr(words[2]).ok)
            /\ result.kind = "Ok"
                => result.money = Money(ParseFloat(words[1]).value,
                                        CurrencyFromStr(words[2]).value)
            /\ result.kind # "Ok" => result.kind \in ErrorKinds

\* C2 witness: "42.4 DOLLAR" parsed to Money { 42.4, Dollar }.
C2_Witness ==
    /\ Done
    /\ words = << <<52, 50, 46, 52>>, <<68, 79, 76, 76, 65, 82>> >>
    /\ result = Ok(Money([class |-> "finite", neg |-> FALSE, mant |-> 424, exp |-> -1],
                         "Dollar"))

\* C3 as stated: with a valid amount, every second word that in lowercase is
\* none of dollar, $, euro, eur is answered with ParseCurrency("Unknown currency").
C3_FourTokensOnly ==
    (/\ Done
     /\ Len(words) = 2
     /\ ParseFloat(words[1]).ok
     /\ ToLowercase(words[2]) \notin ListedTokens)
        => result = UnknownCurrency

\* C3 amended: with a valid amount, the second word is answered with
\* ParseCurrency("Unknown currency") exactly when in lowercase it is none of
\* dollar, $, euro, eur and the euro sign.
C3_FiveTokensOnly ==
    (/\ Done
     /\ Len(words) = 2
     /\ ParseFloat(words[1]).ok)
        => (result = UnknownCurrency
              <=> ToLowercase(words[2]) \notin (ListedTokens \cup {EuroSign}))

\* C3 witness: "100 usd" answered with the unknown-currency error.
C3_Witness ==
    /\ Done
    /\ words = << <<49, 48, 48>>, <<117, 115, 100>> >>
    /\ result = UnknownCurrency

\* C4 as stated: every input whose first word is no float literal is answered
\* with ParseAmount.
C4_AnyInput ==
    (/\ Done
     /\ Len(words) >= 1
     /\ ~ParseFloat(words[1]).ok)
        => result.kind = "ParseAmount"

\* C4 amended: every input of exactly two words whose first word is no float
\* literal is answered with ParseAmount carrying the float parser's error.
C4_TwoTokenInput ==
    (/\ Done
     /\ Len(words) = 2
     /\ ~ParseFloat(words[1]).ok)
        => result = FromParseFloatError(ParseFloat(words[1]).error)

\* C4 witness: "OneMillion Euro" answered with ParseAmount.
C4_Witness ==
    /\ Done
    /\ words = << <<79, 110, 101, 77, 105, 108, 108, 105, 111, 110>>,
                  <<69, 117, 114, 111>> >>
    /\ result.kind = "ParseAmount"

\* The currency lookup has been applied to parts[2] in this call.
LookupApplied ==
    /\ Len(parts) = 2
    /\ \/ pc = "new"
       \/ pc = "done" /\ result.kind \in {"Ok", "ParseCurrency"}

\* What the lookup answered in this call.
LookupAnswer == IF currency = NoCurrency THEN CurrencyErr ELSE CurrencyOk(currency)

\* C5: the lookup answers Dollar for a token that in lowercase is dollar or $,
\* Euro for one that is euro or eur, and answers every spelling of the token
\* that differs in letter case only in the same way.
C5_CaseInsensitive ==
    LookupApplied =>
        LET l == ToLowercase(parts[2])
        IN  /\ l \in { <<100, 111, 108, 108, 97, 114>>, <<36>> }
                => LookupAnswer = CurrencyOk("Dollar")
            /\ l \in { <<101, 117, 114, 111>>, <<101, 117, 114>> }
                => LookupAnswer = CurrencyOk("Euro")
            /\ \A v \in CaseVariants(parts[2]) : CurrencyFromStr(v) = LookupAnswer

\* C5 witness: the lookup applied to DOLLAR answered Dollar, as it answers
\* dOLLAr.
C5_Witness ==
    /\ LookupApplied
    /\ parts[2] = <<68, 79, 76, 76, 65, 82>>
    /\ LookupAnswer = CurrencyOk("Dollar")
    /\ <<100, 79, 76, 76, 65, 114>> \in CaseVariants(parts[2])

\* C6: the word count is checked first, then the amount, then the currency:
\* the currency is only looked up once the amount is parsed, two words that
\* are both invalid are answered with ParseAmount, and ParseCurrency is only
\* answered when the amount parsed.
C6_ValidationOrder ==
    /\ pc = "currency" => (Len(parts) = 2 /\ amount # NoAmount)
    /\ pc = "amount" => Len(parts) = 2
    /\ Done =>
        /\ Len(words) # 2 => result.kind = "ParseFormatting"
        /\ (/\ Len(words) = 2
            /\ ~ParseFloat(words[1]).ok
            /\ ~CurrencyFromStr(words[2]).ok) => result.kind = "ParseAmount"
        /\ result.kind = "ParseCurrency"
            => (Len(words) = 2 /\ ParseFloat(words[1]).ok /\ amount # NoAmount)

\* C6 witness: "OneMillion usd", both words invalid, answered with ParseAmount.
C6_Witness ==
    /\ Done
    /\ words = << <<79, 110, 101, 77, 105, 108, 108, 105, 111, 110>>,
                  <<117, 115, 100>> >>
    /\ result.kind = "ParseAmount"

\* C7: when "<a> <c>" was accepted, "<c> <a>" is rejected with ParseAmount;
\* no word of an input is both a float literal and a currency token.
C7_OrderSensitive ==
    /\ (/\ SecondDone
        /\ Len(words) = 2
        /\ prevWords = Reverse(words)
        /\ prevResult.kind = "Ok") => result.kind = "ParseAmount"
    /\ Done => \A i \in 1..Len(words) :
                  ~(ParseFloat(words[i]).ok /\ CurrencyFromStr(words[i]).ok)

\* C7 witness: "100 Euro" accepted, then "Euro 100" rejected with ParseAmount.
C7_Witness ==
    /\ SecondDone
    /\ prevWords = << <<49, 48, 48>>, <<69, 117, 114, 111>> >>
    /\ words = << <<69, 117, 114, 111>>, <<49, 48, 48>> >>
    /\ prevResult.kind = "Ok"
    /\ result.kind = "ParseAmount"

\* C8 as stated: the same string parsed twice gives two Ok results that are
\* equal under Money's derived equality, or two errors of the same kind.
C8_EqualResults ==
    (SecondDone /\ input = prevInput) =>
        \/ /\ prevResult.kind = "Ok"
           /\ result.kind = "Ok"
           /\ MoneyEq(prevResult.money, result.money)
        \/ /\ prevResult.kind \in ErrorKinds
           /\ result.kind = prevResult.kind

\* C8 amended: the same string parsed twice gives the same kind of outcome;
\* two Ok results hold the same currency and the same class of amount, and
\* they are equal under Money's derived equality exactly when the amount is
\* not NaN.
C8_EqualUnlessNaN ==
    (SecondDone /\ input = prevInput) =>
        /\ result.kind = prevResult.kind
        /\ result.kind = "Ok" =>
            /\ result.money.currency = prevResult.money.currency
            /\ result.money.amount.class = prevResult.money.amount.class
            /\ MoneyEq(prevResult.money, result.money)
                <=> result.money.amount.class # "nan"

\* C8 witness: "NaN Euro" parsed twice, both times Ok with a NaN amount.
C8_Witness ==
    /\ SecondDone
    /\ input = prevInput
    /\ prevResult.kind = "Ok"
    /\ result.kind = "Ok"
    /\ result.money.amount.class = "nan"

\* C9: a call is always at one of its steps, never reads a token that is not
\* there, can always take its next step until it has returned, and returns Ok
\* with a float and one of the two currencies or one of the three errors.
C9_Total ==
    /\ pc \in {"idle", "split", "match", "amount", "currency", "new", "done"}
    /\ pc \in {"amount", "currency", "new"} => Len(parts) = 2
    /\ pc = "new" => (amount # NoAmount /\ currency \in {"Dollar", "Euro"})
    /\ pc = "split" => ENABLED Split
    /\ pc = "match" => ENABLED MatchParts
    /\ pc = "amount" => ENABLED ParseAmount
    /\ pc = "currency" => ENABLED ParseCurrency
    /\ pc = "new" => ENABLED MoneyNew
    /\ Done =>
        /\ result.kind \in {"Ok"} \cup ErrorKinds
        /\ result.kind = "Ok" =>
            /\ result.money.currency \in {"Dollar", "Euro"}
            /\ result.money.amount.class \in {"finite", "inf", "nan"}

\* C9 witness: an input of whitespace only, answered with the formatting error.
C9_Witness ==
    /\ Done
    /\ input # <<>>
    /\ Len(words) = 0
    /\ result = ErrFormatting

\* C10: two inputs made of the same words give the same result, whatever the
\* whitespace before, between and after the words.
C10_SpacingIrrelevant ==
    (SecondDone /\ words = prevWords) => result = prevResult

\* C10 witness: "100 Euro" and "  100   Euro " both parsed to the same Money.
C10_Witness ==
    /\ SecondDone
    /\ prevInput = <<49, 48, 48, 32, 69, 117, 114, 111>>
    /\ input = <<32, 32, 49, 48, 48, 32, 32, 32, 69, 117, 114, 111, 32>>
    /\ result.kind = "Ok"
    /\ result = prevResult

=============================================================================
